---- MODULE Spec2Model ----
(***************************************************************************)
(* The arithmetic expression interpreter of starky/src/interpreter.rs:     *)
(* the address resolver (get_ref, set_ref, eval_map, get_index), the code  *)
(* compiler (compile_code) and the stack interpreter (Block::eval with     *)
(* get_i and get_value), over a Context of flat buffers.                   *)
(***************************************************************************)
EXTENDS Integers, Sequences, FiniteSets, TLC

----------------------------------------------------------------------------
(* Bounds of the model.                                                    *)

\* Order of the base field the model computes in.  The program's field is
\* the Goldilocks field; the model keeps the order above every index and
\* every immediate it uses, as the program's order is above every usize
\* index it converts.
FieldOrder == 97

\* log2 of the base domain and of the extended domain (ctx.nbits, ctx.nbits_ext).
nbits == 1
nbits_ext == 2

\* starkinfo.n_constants: the row width of const_n and const_2ns.
n_constants == 2

\* Longest code list compiled.
MaxSections == 2

\* How many rows one worker evaluates.
MaxEvals == 1

\* Longest instruction list of the blocks built instruction by instruction.
MaxBlockLen == 3

----------------------------------------------------------------------------
(* Field values: F3G, a dim-tagged triple of base-field coordinates.       *)

F3G(d, a, b, c) == [dim |-> d, c |-> <<a, b, c>>]

\* F3G::from(u64 / usize / Fr): a dim-1 value, reduced into the field.
FromInt(n) == F3G(1, n % FieldOrder, 0, 0)

\* F3G::new(a, b, c): a dim-3 value.
F3Gnew(a, b, c) == F3G(3, a % FieldOrder, b % FieldOrder, c % FieldOrder)

ZERO == FromInt(0)

\* to_be: the base-field (first) coordinate.
to_be(v) == v.c[1]

\* to_be().as_int(): the canonical integer of the first coordinate.
as_int(v) == v.c[1]

\* as_elements: the three coordinates.
as_elements(v) == v.c

\* dim of the result of a binary operation: 1 only when both are 1.
OpDim(a, b) == IF a.dim = 1 /\ b.dim = 1 THEN 1 ELSE 3

FAdd(a, b) ==
    F3G(OpDim(a, b), (a.c[1] + b.c[1]) % FieldOrder,
                     (a.c[2] + b.c[2]) % FieldOrder,
                     (a.c[3] + b.c[3]) % FieldOrder)

FSub(a, b) ==
    F3G(OpDim(a, b), (a.c[1] - b.c[1]) % FieldOrder,
                     (a.c[2] - b.c[2]) % FieldOrder,
                     (a.c[3] - b.c[3]) % FieldOrder)

\* Multiplication in the cubic extension modulo x^3 - x - 1.
FMul(a, b) ==
    LET A == (a.c[1] + a.c[2]) * (b.c[1] + b.c[2])
        B == (a.c[1] + a.c[3]) * (b.c[1] + b.c[3])
        C == (a.c[2] + a.c[3]) * (b.c[2] + b.c[3])
        D == a.c[1] * b.c[1]
        E == a.c[2] * b.c[2]
        F == a.c[3] * b.c[3]
        G == D - E
    IN  F3G(OpDim(a, b), (C + G - F) % FieldOrder,
                         (A + C - E - E - D) % FieldOrder,
                         (B - G) % FieldOrder)

\* Equality of field values: a dim-3 value with zero upper coordinates equals
\* the dim-1 value of the same first coordinate.
FEq(a, b) == a.c = b.c

----------------------------------------------------------------------------
(* Expressions and blocks.                                                 *)

Expr(op, x, syms, defs) == [op |-> op, x |-> x, syms |-> syms, defs |-> defs]

\* impl From<F3G> for Expr
VariExpr(v) == Expr("Vari", v, <<>>, <<>>)

\* The outcome of a panic! where an expression was expected.
PanicExpr == Expr("Panic", ZERO, <<>>, <<>>)

IsPanic(e) == e.op = "Panic"

\* get_index with the offset and the size taking each other's place.
get_index_swapped(offset, next, modulas, size) ==
    << VariExpr(FromInt(size)), VariExpr(FromInt(next)),
       VariExpr(FromInt(modulas)), VariExpr(FromInt(offset)) >>

get_index(offset, next, modulas, size) ==
    << VariExpr(FromInt(offset)), VariExpr(FromInt(next)),
       VariExpr(FromInt(modulas)), VariExpr(FromInt(size)) >>

----------------------------------------------------------------------------
(* StarkInfo: the layout metadata the resolver consumes.                   *)

\* var_pol_map: polynomial id (0-based) -> {section, section_pos, dim}
var_pol_map ==
    << [section |-> "cm1_n",   section_pos |-> 0, dim |-> 1],
       [section |-> "cm1_n",   section_pos |-> 1, dim |-> 3],
       [section |-> "cm1_2ns", section_pos |-> 0, dim |-> 1],
       [section |-> "cm1_2ns", section_pos |-> 1, dim |-> 3],
       [section |-> "exps_n",  section_pos |-> 0, dim |-> 1],
       [section |-> "exps_n",  section_pos |-> 1, dim |-> 3] >>

\* cm_n, cm_2ns, tmpexp_n: Node.id (0-based) -> polynomial id
cm_n     == <<0, 1>>
cm_2ns   == <<2, 3>>
tmpexp_n == <<4, 5>>

\* map_sectionsN: section -> row width
map_sectionsN(section) ==
    CASE section = "cm1_n"   -> 4
      [] section = "cm1_2ns" -> 4
      [] section = "exps_n"  -> 4
      [] OTHER               -> 0

----------------------------------------------------------------------------
(* Reference nodes and code sections.                                      *)

Kinds == { "tmp", "const", "cm", "tmpExp", "q", "f", "number", "public",
           "challenge", "eval", "xDivXSubXi", "xDivXSubWXi", "x", "Zi" }

\* A kind outside the resolver's table.
UnknownKind == "bogus"

Ids == {0, 1}

Some(s) == [some |-> TRUE, s |-> s]
None    == [some |-> FALSE, s |-> <<>>]

Node(k, id, prime, value) ==
    [type_ |-> k, id |-> id, prime |-> prime, value |-> value]

Digits == <<"0", "1", "2", "3", "4", "5", "6", "7", "8", "9">>

IsDigit(ch) == \E d \in 1..10 : Digits[d] = ch

DigitVal(ch) == (CHOOSE d \in 1..10 : Digits[d] = ch) - 1

RECURSIVE ParseDigits(_, _)
ParseDigits(s, acc) ==
    IF s = <<>> THEN acc ELSE ParseDigits(Tail(s), acc * 10 + DigitVal(Head(s)))

\* str::parse::<u64>: an optional leading "+", then one or more decimal
\* digits; -1 stands for Err.
parse_u64(s) ==
    LET body == IF s # <<>> /\ Head(s) = "+" THEN Tail(s) ELSE s
    IN  IF body # <<>> /\ \A k \in 1..Len(body) : IsDigit(body[k])
        THEN ParseDigits(body, 0)
        ELSE -1

VARIABLES
    code,       \* the code list given to compile_code
    dom,        \* "n" or "2ns"
    ret,        \* the ret flag of compile_code
    q_dim,      \* starkinfo.q_dim
    body,       \* body.exprs of the Block under construction / built
    j,          \* compile_code's loop index
    cstate,     \* "compiling", "compiled" or "panic"
    ctx,        \* the Context: section name -> flat buffer of F3G
    estate,     \* per worker: "idle", "running", "ret", "end" or "panic"
    pc,         \* per worker: eval's instruction index i
    val_stack,  \* per worker: eval's value stack
    arg_i,      \* per worker: the row being evaluated
    result,     \* per worker: the value eval returned
    nevals,     \* per worker: how many evals it has begun
    written,    \* per worker: the cells the current eval has stored to
    lastw       \* per worker: the last Write of the current eval

cvars == <<code, dom, ret, q_dim, body, j, cstate>>
evars == <<ctx, estate, pc, val_stack, arg_i, result, nevals, written, lastw>>
vars  == <<code, dom, ret, q_dim, body, j, cstate,
           ctx, estate, pc, val_stack, arg_i, result, nevals, written, lastw>>

----------------------------------------------------------------------------
(* Address resolver.                                                       *)

\* eval_map that takes the rotated row whatever the prime flag.
eval_map_always_next(pol_id, prime, next, modulas) ==
    LET p      == var_pol_map[pol_id + 1]
        offset == VariExpr(FromInt(p.section_pos))
        size   == VariExpr(FromInt(map_sectionsN(p.section)))
        nxt    == VariExpr(FromInt(next))
        mdl    == VariExpr(FromInt(modulas))
    IN  IF p.dim = 1
        THEN Expr("Refer", ZERO, <<p.section>>, <<offset, nxt, mdl, size>>)
        ELSE IF p.dim = 3
        THEN Expr("Refer", ZERO, <<p.section, "3">>, <<offset, nxt, mdl, size>>)
        ELSE PanicExpr

eval_map(pol_id, prime, next, modulas) ==
    LET p      == var_pol_map[pol_id + 1]
        offset == VariExpr(FromInt(p.section_pos))
        size   == VariExpr(FromInt(map_sectionsN(p.section)))
        nxt    == VariExpr(FromInt(next))
        mdl    == VariExpr(FromInt(modulas))
        zero   == VariExpr(ZERO)
    IN  IF p.dim = 1 THEN
            IF prime
            THEN Expr("Refer", ZERO, <<p.section>>, <<offset, nxt, mdl, size>>)
            ELSE Expr("Refer", ZERO, <<p.section>>, <<offset, zero, mdl, size>>)
        ELSE IF p.dim = 3 THEN
            IF prime
            THEN Expr("Refer", ZERO, <<p.section, "3">>, <<offset, nxt, mdl, size>>)
            ELSE Expr("Refer", ZERO, <<p.section, "3">>, <<offset, zero, mdl, size>>)
        ELSE PanicExpr

\* starkinfo.cm_n[r.id] and the like: an index out of the vector panics.
PolOf(vec, r, prime, next, modulas) ==
    IF r.id + 1 \in DOMAIN vec
    THEN eval_map(vec[r.id + 1], prime, next, modulas)
    ELSE PanicExpr

get_ref(r, d, next, modulas) ==
    CASE r.type_ = "tmp" ->
            Expr("Refer", ZERO, <<"tmp">>, get_index(r.id, 0, modulas, 0))
      [] r.type_ = "const" ->
            IF d = "n" THEN
                IF r.prime
                THEN Expr("Refer", ZERO, <<"const_n">>,
                          get_index(r.id, 1, modulas, n_constants))
                ELSE Expr("Refer", ZERO, <<"const_n">>,
                          get_index(r.id, 0, modulas, n_constants))
            ELSE IF d = "2ns" THEN
                IF r.prime
                THEN Expr("Refer", ZERO, <<"const_2ns">>,
                          get_index(r.id, next, modulas, n_constants))
                ELSE Expr("Refer", ZERO, <<"const_2ns">>,
                          get_index(r.id, 0, modulas, n_constants))
            ELSE PanicExpr
      [] r.type_ = "cm" ->
            IF d = "n" THEN PolOf(cm_n, r, r.prime, next, modulas)
            ELSE IF d = "2ns" THEN PolOf(cm_2ns, r, r.prime, next, modulas)
            ELSE PanicExpr
      [] r.type_ = "number" ->
            IF r.value.some /\ parse_u64(r.value.s) >= 0
            THEN VariExpr(FromInt(parse_u64(r.value.s)))
            ELSE PanicExpr
      [] r.type_ = "public" ->
            Expr("Refer", ZERO, <<"publics">>, get_index(r.id, 0, modulas, 0))
      [] r.type_ = "challenge" ->
            Expr("Refer", ZERO, <<"challenge">>, get_index(r.id, 0, modulas, 0))
      [] r.type_ = "eval" ->
            Expr("Refer", ZERO, <<"evals">>, get_index(r.id, 0, modulas, 0))
      [] r.type_ = "xDivXSubXi" ->
            Expr("Refer", ZERO, <<"xDivXSubXi", "3">>, get_index(0, 0, modulas, 3))
      [] r.type_ = "xDivXSubWXi" ->
            Expr("Refer", ZERO, <<"xDivXSubWXi", "3">>, get_index(0, 0, modulas, 3))
      [] r.type_ = "x" ->
            IF d = "n"
            THEN Expr("Refer", ZERO, <<"x_n">>, get_index(0, 0, modulas, 1))
            ELSE IF d = "2ns"
            THEN Expr("Refer", ZERO, <<"x_2ns">>, get_index(0, 0, modulas, 1))
            ELSE PanicExpr
      [] r.type_ = "Zi" ->
            Expr("Refer", ZERO, <<"Zi">>, get_index(0, 0, modulas, 1))
      [] OTHER -> PanicExpr

\* The destination resolved as a source is, by get_ref.
set_ref_dst_as_source(r, d, next, modulas) == get_ref(r, d, next, modulas)

\* The destination expression set_ref resolves (e_dst), or a panic.
set_ref_dst(r, d, next, modulas) ==
    CASE r.type_ = "tmp" ->
            Expr("Refer", ZERO, <<"tmp">>, get_index(r.id, 0, modulas, 0))
      [] r.type_ = "q" ->
            IF d = "n" THEN PanicExpr
            ELSE IF d = "2ns" THEN
                IF q_dim = 3
                THEN Expr("Refer", ZERO, <<"q_2ns", "3">>,
                          get_index(r.id, 0, modulas, 3))
                ELSE IF q_dim = 1
                THEN Expr("Refer", ZERO, <<"q_2ns">>,
                          get_index(r.id, 0, modulas, 1))
                ELSE PanicExpr
            ELSE PanicExpr
      [] r.type_ = "f" ->
            IF d = "n" THEN PanicExpr
            ELSE IF d = "2ns"
            THEN Expr("Refer", ZERO, <<"f_2ns", "3">>,
                      get_index(r.id, 0, modulas, 3))
            ELSE PanicExpr
      [] r.type_ = "cm" ->
            IF d = "n" THEN PolOf(cm_n, r, r.prime, next, modulas)
            ELSE IF d = "2ns" THEN PolOf(cm_2ns, r, r.prime, next, modulas)
            ELSE PanicExpr
      [] r.type_ = "tmpExp" ->
            IF d = "n" THEN PolOf(tmpexp_n, r, r.prime, next, modulas)
            ELSE PanicExpr
      [] OTHER -> PanicExpr

\* set_ref with the push of the arithmetic expression left out.
set_ref_without_val(r, val, d, next, modulas) ==
    LET e_dst == set_ref_dst(r, d, next, modulas)
    IN  IF IsPanic(e_dst) THEN <<>>
        ELSE << Expr("Write", ZERO, <<>>, <<e_dst>>) >>

\* set_ref: the two instructions pushed to body.exprs, or <<>> on a panic.
set_ref(r, val, d, next, modulas) ==
    LET e_dst == set_ref_dst(r, d, next, modulas)
    IN  IF IsPanic(e_dst) THEN <<>>
        ELSE << val, Expr("Write", ZERO, <<>>, <<e_dst>>) >>

----------------------------------------------------------------------------
(* Code compiler.                                                          *)

Section(op, src, dest) == [op |-> op, src |-> src, dest |-> dest]

RECURSIVE Pow2(_)
Pow2(n) == IF n = 0 THEN 1 ELSE 2 * Pow2(n - 1)

\* let next = if dom == "n" { 1 } else { 1 << (nbits_ext - nbits) }
compile_next(d) == IF d = "n" THEN 1 ELSE Pow2(nbits_ext - nbits)

\* The domain size taken to be that of the base domain in either domain.
compile_N_of_base(d) == Pow2(nbits)

\* let N = if dom == "n" { 1 << nbits } else { 1 << nbits_ext }
compile_N(d) == IF d = "n" THEN Pow2(nbits) ELSE Pow2(nbits_ext)

\* The arithmetic expression of one section; &src[0..2] and &src[0..1]
\* panic on a source list that is too short.
compile_exp(op, src) ==
    CASE op = "add"  -> IF Len(src) >= 2
                        THEN Expr("Add", ZERO, <<>>, SubSeq(src, 1, 2))
                        ELSE PanicExpr
      [] op = "sub"  -> IF Len(src) >= 2
                        THEN Expr("Sub", ZERO, <<>>, SubSeq(src, 1, 2))
                        ELSE PanicExpr
      [] op = "mul"  -> IF Len(src) >= 2
                        THEN Expr("Mul", ZERO, <<>>, SubSeq(src, 1, 2))
                        ELSE PanicExpr
      [] op = "copy" -> IF Len(src) >= 1
                        THEN Expr("Copy_", ZERO, <<>>, SubSeq(src, 1, 1))
                        ELSE PanicExpr
      [] OTHER -> PanicExpr

\* What one iteration of the loop over code appends to body.exprs; <<>>
\* when the iteration panics.
compile_section(s, d) ==
    LET next    == compile_next(d)
        modulas == compile_N(d)
        src     == [k \in 1..Len(s.src) |-> get_ref(s.src[k], d, next, modulas)]
        exp     == compile_exp(s.op, src)
    IN  IF (\E k \in 1..Len(src) : IsPanic(src[k])) \/ IsPanic(exp)
        THEN <<>>
        ELSE set_ref(s.dest, exp, d, next, modulas)

\* The `if ret` tail with the Refer of the last dest left out.
compile_ret_without_refer(c, d) ==
    IF Len(c) = 0 THEN <<>>
    ELSE LET e == get_ref(c[Len(c)].dest, d, compile_next(d), compile_N(d))
         IN  IF IsPanic(e) THEN <<>>
             ELSE << Expr("Ret", ZERO, <<>>, <<>>) >>

\* What the `if ret` tail appends to body.exprs; <<>> when it panics
\* (code.len() - 1 on an empty list, or get_ref on the last dest).
compile_ret(c, d) ==
    IF Len(c) = 0 THEN <<>>
    ELSE LET e == get_ref(c[Len(c)].dest, d, compile_next(d), compile_N(d))
         IN  IF IsPanic(e) THEN <<>>
             ELSE << e, Expr("Ret", ZERO, <<>>, <<>>) >>

\* One iteration of `for j in 0..code.len()`.
CompileSection ==
    /\ cstate = "compiling"
    /\ j < Len(code)
    /\ LET out == compile_section(code[j + 1], dom)
       IN  IF out = <<>>
           THEN /\ cstate' = "panic"
                /\ body' = <<>>
                /\ j' = j
           ELSE /\ body' = body \o out
                /\ j' = j + 1
                /\ cstate' = cstate
    /\ UNCHANGED <<code, dom, ret, q_dim>>
    /\ UNCHANGED evars

\* The end of compile_code: the `if ret` tail, then the Block is returned.
CompileRet ==
    /\ cstate = "compiling"
    /\ j = Len(code)
    /\ IF ret
       THEN LET out == compile_ret(code, dom)
            IN  IF out = <<>>
                THEN cstate' = "panic" /\ body' = <<>>
                ELSE cstate' = "compiled" /\ body' = body \o out
       ELSE cstate' = "compiled" /\ body' = body
    /\ UNCHANGED <<code, dom, ret, q_dim, j>>
    /\ UNCHANGED evars

Doms == {"n", "2ns"}

----------------------------------------------------------------------------
(* The Context.                                                            *)

\* The names StarkContext::get_mut resolves.
CtxNames ==
    << "tmp", "cm1_n", "cm1_2ns", "cm2_n", "cm2_2ns", "cm3_n", "cm3_2ns",
       "cm4_n", "cm4_2ns", "q_2ns", "f_2ns", "publics", "challenge",
       "exps_n", "exps_2ns", "const_n", "const_2ns", "evals", "x_n", "x_2ns" >>

\* The typed members read by name in get_value.
TypedNames == << "xDivXSubXi", "xDivXSubWXi" >>

AllNames == CtxNames \o TypedNames

NameSet(names) == { names[k] : k \in 1..Len(names) }

NameIndex(name) == CHOOSE k \in 1..Len(AllNames) : AllNames[k] = name

\* Length of each buffer: rows of its domain times its row width.
BufLen(name, qd) ==
    LET Nn == Pow2(nbits)
        Ne == Pow2(nbits_ext)
    IN  CASE name \in {"tmp", "publics", "challenge", "evals"} -> Cardinality(Ids)
          [] name = "const_n"   -> Nn * n_constants
          [] name = "const_2ns" -> Ne * n_constants
          [] name \in {"cm1_n", "exps_n"}     -> Nn * map_sectionsN(name)
          [] name \in {"cm1_2ns", "exps_2ns"} -> Ne * map_sectionsN("cm1_2ns")
          [] name = "q_2ns" -> Ne * qd
          [] name = "f_2ns" -> Ne * 3
          [] name = "x_n"   -> Nn
          [] name = "x_2ns" -> Ne
          [] name \in {"xDivXSubXi", "xDivXSubWXi"} -> Ne * 3
          [] OTHER -> 0

\* What a cell holds before any evaluation: challenges and evaluations are
\* extension values held in one cell, everything else is a base value.
CellInit(name, k) ==
    LET n == 1 + k + 16 * NameIndex(name)
    IN  IF name \in {"challenge", "evals"}
        THEN F3Gnew(n, n + 1, n + 2)
        ELSE FromInt(n)

\* The Context is held as the cells that differ from their initial content:
\* a function from <<name, index>> to the value stored there.
CtxInit == [p \in {} |-> ZERO]

\* ctx.Zi: the closure from a row to a base value.
Zi(i) == FromInt(i + 1)

\* Whether index id lies inside the buffer called name.
InBuf(name, id) == id >= 0 /\ id < BufLen(name, q_dim)

\* buf[id] of the buffer called name.
Cell(c, name, id) ==
    IF <<name, id>> \in DOMAIN c THEN c[<<name, id>>] ELSE CellInit(name, id)

\* buf[id] = v on the buffer called name.
Store(c, name, id, v) ==
    LET keep == IF v = CellInit(name, id)
                THEN DOMAIN c \ {<<name, id>>}
                ELSE DOMAIN c \cup {<<name, id>>}
    IN  [p \in keep |-> IF p = <<name, id>> THEN v ELSE c[p]]

----------------------------------------------------------------------------
(* Stack interpreter helpers.                                              *)

\* The outcome of a panic where a value was expected.
PanicVal == [dim |-> 0, c |-> <<0, 0, 0>>]

IsPanicVal(v) == v.dim = 0

\* get_i: offset + ((arg_i + next) % modulas) * size, from the four Vari
\* definitions of the descriptor; -1 when it panics (a definition that is
\* missing or is no Vari, or a zero modulus).
\* get_i that leaves the rotation out of the row.
get_i_without_next(expr, i) ==
    IF Len(expr.defs) < 4 \/ \E k \in 1..4 : expr.defs[k].op # "Vari"
    THEN -1
    ELSE LET offset  == as_int(expr.defs[1].x)
             modulas == as_int(expr.defs[3].x)
             size    == as_int(expr.defs[4].x)
         IN  IF modulas = 0 THEN -1
             ELSE offset + (i % modulas) * size

get_i(expr, i) ==
    IF Len(expr.defs) < 4 \/ \E k \in 1..4 : expr.defs[k].op # "Vari"
    THEN -1
    ELSE LET offset  == as_int(expr.defs[1].x)
             next    == as_int(expr.defs[2].x)
             modulas == as_int(expr.defs[3].x)
             size    == as_int(expr.defs[4].x)
         IN  IF modulas = 0 THEN -1
             ELSE offset + ((i + next) % modulas) * size

\* expr.syms[1].parse::<usize>().unwrap() for a one-character string.
sym_dim(sym) == parse_u64(<<sym>>)

\* F3G::new of the first coordinates of three consecutive cells; an index
\* out of the buffer panics.
get_triple(c, name, id) ==
    IF InBuf(name, id) /\ InBuf(name, id + 2)
    THEN F3Gnew(to_be(Cell(c, name, id)), to_be(Cell(c, name, id + 1)),
                to_be(Cell(c, name, id + 2)))
    ELSE PanicVal

get_value(c, expr, i) ==
    IF Len(expr.syms) = 0 THEN PanicVal
    ELSE
    LET addr == expr.syms[1]
        id   == get_i(expr, i)
    IN  CASE addr \in NameSet(CtxNames) ->
                IF id < 0 THEN PanicVal
                ELSE
                LET dim == IF Len(expr.syms) = 2 THEN sym_dim(expr.syms[2]) ELSE 1
                IN  CASE dim = 3 -> get_triple(c, addr, id)
                      [] dim = 1 -> IF InBuf(addr, id)
                                    THEN Cell(c, addr, id)
                                    ELSE PanicVal
                      [] OTHER -> PanicVal
          [] addr = "xDivXSubXi" ->
                IF id < 0 THEN PanicVal ELSE get_triple(c, "xDivXSubXi", id)
          [] addr = "xDivXSubWXi" ->
                IF id < 0 THEN PanicVal ELSE get_triple(c, "xDivXSubWXi", id)
          [] addr = "Zi" -> Zi(i)
          [] OTHER -> PanicVal

\* An inline operand: the immediate of a Vari, else the value loaded.
operand(c, e, i) == IF e.op = "Vari" THEN e.x ELSE get_value(c, e, i)

\* The stores of Ops::Write with the layout chosen by the value's dim
\* alone, the section being tmp or not.
write_cells_by_value_dim(c, addr, id, val) ==
    IF addr \notin NameSet(CtxNames) \/ id < 0
    THEN [ctx |-> c, ok |-> FALSE, cells |-> {}]
    ELSE IF val.dim = 1
    THEN IF InBuf(addr, id)
         THEN [ctx |-> Store(c, addr, id, val), ok |-> TRUE,
               cells |-> {<<addr, id>>}]
         ELSE [ctx |-> c, ok |-> FALSE, cells |-> {}]
    ELSE LET vals == as_elements(val)
             n    == Cardinality({k \in 0..2 : InBuf(addr, id + k)})
             c1   == IF n >= 1 THEN Store(c, addr, id, FromInt(vals[1])) ELSE c
             c2   == IF n >= 2 THEN Store(c1, addr, id + 1, FromInt(vals[2])) ELSE c1
             c3   == IF n >= 3 THEN Store(c2, addr, id + 2, FromInt(vals[3])) ELSE c2
         IN  [ctx |-> c3, ok |-> (n = 3),
              cells |-> {<<addr, id + k>> : k \in 0..(n - 1)}]

\* The stores of Ops::Write once the value is popped: the Context after
\* them, whether they all succeeded, and the cells stored to.  A store out
\* of the buffer panics after the stores before it have taken place.
write_cells(c, addr, id, val) ==
    IF addr \notin NameSet(CtxNames) \/ id < 0
    THEN [ctx |-> c, ok |-> FALSE, cells |-> {}]
    ELSE IF val.dim = 1 \/ addr = "tmp"
    THEN IF InBuf(addr, id)
         THEN [ctx |-> Store(c, addr, id, val), ok |-> TRUE,
               cells |-> {<<addr, id>>}]
         ELSE [ctx |-> c, ok |-> FALSE, cells |-> {}]
    ELSE LET vals == as_elements(val)
             n    == Cardinality({k \in 0..2 : InBuf(addr, id + k)})
             c1   == IF n >= 1 THEN Store(c, addr, id, FromInt(vals[1])) ELSE c
             c2   == IF n >= 2 THEN Store(c1, addr, id + 1, FromInt(vals[2])) ELSE c1
             c3   == IF n >= 3 THEN Store(c2, addr, id + 2, FromInt(vals[3])) ELSE c2
         IN  [ctx |-> c3, ok |-> (n = 3),
              cells |-> {<<addr, id + k>> : k \in 0..(n - 1)}]

----------------------------------------------------------------------------
(* Stack interpreter: Block::eval, one instruction per step.               *)

Workers == {1, 2}

\* The rows of worker w: the shards of distinct workers are disjoint.
Shard(w, d) == { i \in 0..(compile_N(d) - 1) : i % Cardinality(Workers) = w - 1 }

NoWrite == [some |-> FALSE, dest |-> PanicExpr, val |-> ZERO]

\* The state of worker w after one instruction, with `i += 1` left out.
Advance_without_increment(w, st, est, res, c, wr, lw) ==
    /\ pc' = pc
    /\ val_stack' = [val_stack EXCEPT ![w] = st]
    /\ estate' = [estate EXCEPT ![w] = est]
    /\ result' = [result EXCEPT ![w] = res]
    /\ ctx' = c
    /\ written' = [written EXCEPT ![w] = wr]
    /\ lastw' = [lastw EXCEPT ![w] = lw]
    /\ UNCHANGED <<arg_i, nevals>>
    /\ UNCHANGED cvars

\* The state of worker w after one instruction.
Advance(w, st, est, res, c, wr, lw) ==
    /\ pc' = [pc EXCEPT ![w] = @ + 1]
    /\ val_stack' = [val_stack EXCEPT ![w] = st]
    /\ estate' = [estate EXCEPT ![w] = est]
    /\ result' = [result EXCEPT ![w] = res]
    /\ ctx' = c
    /\ written' = [written EXCEPT ![w] = wr]
    /\ lastw' = [lastw EXCEPT ![w] = lw]
    /\ UNCHANGED <<arg_i, nevals>>
    /\ UNCHANGED cvars

\* A panic inside eval: the worker unwinds, the Context stays as it is.
Unwind(w, c, wr) ==
    Advance(w, <<>>, "panic", result[w], c, wr, lastw[w])

\* val_stack.push(v) with the value also left in tmp[0].
Push_storing_to_tmp(w, v) ==
    IF IsPanicVal(v)
    THEN Unwind(w, ctx, written[w])
    ELSE Advance(w, Append(val_stack[w], v), "running", result[w],
                 Store(ctx, "tmp", 0, v), written[w], lastw[w])

\* val_stack.push(v), v the outcome of a load or of an operation.
Push(w, v) ==
    IF IsPanicVal(v)
    THEN Unwind(w, ctx, written[w])
    ELSE Advance(w, Append(val_stack[w], v), "running", result[w], ctx,
                 written[w], lastw[w])

\* eval_binary with the operands of Ops::Sub taken in the other order.
eval_binary_sub_reversed(op, c, expr, i) ==
    IF Len(expr.defs) < 2 THEN PanicVal
    ELSE LET lhs == operand(c, expr.defs[1], i)
             rhs == operand(c, expr.defs[2], i)
         IN  IF IsPanicVal(lhs) \/ IsPanicVal(rhs) THEN PanicVal
             ELSE CASE op = "Add" -> FAdd(lhs, rhs)
                    [] op = "Sub" -> FSub(rhs, lhs)
                    [] op = "Mul" -> FMul(lhs, rhs)

\* lhs op rhs of Ops::Add, Ops::Sub, Ops::Mul on the two inline operands.
eval_binary(op, c, expr, i) ==
    IF Len(expr.defs) < 2 THEN PanicVal
    ELSE LET lhs == operand(c, expr.defs[1], i)
             rhs == operand(c, expr.defs[2], i)
         IN  IF IsPanicVal(lhs) \/ IsPanicVal(rhs) THEN PanicVal
             ELSE CASE op = "Add" -> FAdd(lhs, rhs)
                    [] op = "Sub" -> FSub(lhs, rhs)
                    [] op = "Mul" -> FMul(lhs, rhs)

\* The value Ops::Copy_ pushes.
eval_copy(c, expr, i) ==
    IF Len(expr.defs) < 1 THEN PanicVal ELSE operand(c, expr.defs[1], i)

\* Ops::Ret: return val_stack.pop().unwrap().
ExecRet(w) ==
    LET st == val_stack[w]
    IN  IF st = <<>>
        THEN Unwind(w, ctx, written[w])
        ELSE Advance(w, SubSeq(st, 1, Len(st) - 1), "ret", st[Len(st)], ctx,
                     written[w], lastw[w])

\* Ops::Write: resolve the index, pop the value, store it.
ExecWrite(w, expr) ==
    LET st == val_stack[w]
    IN  IF Len(expr.defs) < 1 THEN Unwind(w, ctx, written[w])
        ELSE
        LET next_expr == expr.defs[1]
            id        == get_i(next_expr, arg_i[w])
        IN  IF id < 0 \/ Len(next_expr.syms) = 0 \/ st = <<>>
            THEN Unwind(w, ctx, written[w])
            ELSE LET addr == next_expr.syms[1]
                     val  == st[Len(st)]
                     out  == write_cells(ctx, addr, id, val)
                 IN  IF out.ok
                     THEN Advance(w, SubSeq(st, 1, Len(st) - 1), "running",
                                  result[w], out.ctx,
                                  written[w] \cup out.cells,
                                  [some |-> TRUE, dest |-> next_expr, val |-> val])
                     ELSE Unwind(w, out.ctx, written[w] \cup out.cells)

\* block.eval(&mut ctx, i) is entered by worker w.  With exclusive set, no
\* other eval is under way (eval borrows the Context mutably), and a panic
\* has ended the program.
StartEval(w, i, exclusive) ==
    /\ cstate = "compiled"
    /\ estate[w] \in {"idle", "ret", "end"}
    /\ nevals[w] < MaxEvals
    /\ i \in Shard(w, dom)
    /\ exclusive => \A v \in Workers : estate[v] \notin {"running", "panic"}
    /\ estate' = [estate EXCEPT ![w] = "running"]
    /\ pc' = [pc EXCEPT ![w] = 0]
    /\ val_stack' = [val_stack EXCEPT ![w] = <<>>]
    /\ arg_i' = [arg_i EXCEPT ![w] = i]
    /\ nevals' = [nevals EXCEPT ![w] = @ + 1]
    /\ written' = [written EXCEPT ![w] = {}]
    /\ lastw' = [lastw EXCEPT ![w] = NoWrite]
    /\ UNCHANGED <<ctx, result>>
    /\ UNCHANGED cvars

\* One turn of `while i < length`: fetch exprs[i], i += 1, match expr.op.
Step(w) ==
    /\ estate[w] = "running"
    /\ pc[w] < Len(body)
    /\ LET expr == body[pc[w] + 1]
       IN  CASE expr.op = "Ret"   -> ExecRet(w)
             [] expr.op = "Vari"  -> Push(w, expr.x)
             [] expr.op \in {"Add", "Sub", "Mul"} ->
                    Push(w, eval_binary(expr.op, ctx, expr, arg_i[w]))
             [] expr.op = "Copy_" -> Push(w, eval_copy(ctx, expr, arg_i[w]))
             [] expr.op = "Write" -> ExecWrite(w, expr)
             [] expr.op = "Refer" -> Push(w, get_value(ctx, expr, arg_i[w]))

\* The loop ends without a Ret and eval returns the value last written.
EvalEnd_returning_written(w) ==
    /\ estate[w] = "running"
    /\ pc[w] = Len(body)
    /\ estate' = [estate EXCEPT ![w] = "end"]
    /\ result' = [result EXCEPT ![w] = lastw[w].val]
    /\ UNCHANGED <<ctx, pc, val_stack, arg_i, nevals, written, lastw>>
    /\ UNCHANGED cvars

\* The loop ends without a Ret: eval returns F3G::ZERO.
EvalEnd(w) ==
    /\ estate[w] = "running"
    /\ pc[w] = Len(body)
    /\ estate' = [estate EXCEPT ![w] = "end"]
    /\ result' = [result EXCEPT ![w] = ZERO]
    /\ UNCHANGED <<ctx, pc, val_stack, arg_i, nevals, written, lastw>>
    /\ UNCHANGED cvars

----------------------------------------------------------------------------
(* Inputs.                                                                 *)

Ops == {"add", "sub", "mul", "copy"}

\* An op string outside the compiler's table.
UnknownOp == "div"

Num(str) == Node("number", 0, FALSE, Some(str))

Ref(k, id, prime) == Node(k, id, prime, None)

\* Every reference node of the model: each kind of the table and one
\* unknown kind, with each id and each prime flag; numbers with a well
\* formed, a signed, a malformed, an empty and a missing value string.
NumberNodes ==
    { Num(<<"2">>), Num(<<"1", "0">>), Num(<<"+", "3">>), Num(<<"x">>),
      Num(<<>>), Node("number", 0, FALSE, None) }

AllNodes ==
    { Ref(k, id, prime) : k \in (Kinds \ {"number"}) \cup {UnknownKind},
                          id \in Ids, prime \in BOOLEAN }
    \cup NumberNodes

\* Lists of n sections, the last one drawn from `last`, the ones before it
\* from `first`.
ListsOf(n, first, last) ==
    { [k \in 1..n |-> IF k = n THEN s ELSE t[k]] :
        s \in last, t \in [1..n -> first] }

CodeLists(first, last) ==
    UNION { ListsOf(n, first, last) : n \in 1..MaxSections }

\* Sections of the compile-only specification: every node in each source
\* position and in the destination position, every op.
FewSrc  == { Num(<<"2">>), Ref("cm", 0, TRUE) }
FewDest == { Ref("tmp", 0, FALSE), Ref("cm", 1, FALSE) }

CompileSections ==
    { Section("add", <<a, b>>, d) : a \in AllNodes, b \in FewSrc, d \in FewDest }
    \cup { Section("sub", <<a, b>>, d) : a \in FewSrc, b \in AllNodes, d \in FewDest }
    \cup { Section("copy", <<a>>, d) : a \in AllNodes, d \in FewDest }
    \cup { Section("copy", <<a, b>>, d) :
              a \in FewSrc, b \in AllNodes, d \in {Ref("tmp", 0, FALSE)} }
    \cup { Section(op, <<Num(<<"2">>), Ref("cm", 0, TRUE)>>, d) :
              op \in Ops \cup {UnknownOp}, d \in AllNodes }
    \cup { Section(op, src, Ref("tmp", 1, FALSE)) :
              op \in Ops, src \in {<<>>, <<Num(<<"2">>)>>} }

CompileFirst ==
    { Section("add", <<Num(<<"2">>), Ref("cm", 0, TRUE)>>, Ref("tmp", 0, FALSE)),
      Section("copy", <<Ref("Zi", 0, FALSE)>>, Ref("cm", 1, TRUE)) }

CompileCodes == {<<>>} \cup CodeLists(CompileFirst, CompileSections)

\* Sections of the evaluating specifications.
EvalSrc ==
    { Num(<<"2">>), Ref("tmp", 0, FALSE), Ref("cm", 0, TRUE), Ref("cm", 1, FALSE),
      Ref("const", 1, TRUE), Ref("public", 0, FALSE), Ref("challenge", 0, FALSE),
      Ref("eval", 1, FALSE), Ref("x", 0, FALSE), Ref("Zi", 0, FALSE),
      Ref("xDivXSubXi", 0, FALSE), Ref("xDivXSubWXi", 0, FALSE) }

EvalSrc2 == { Num(<<"1", "0">>), Ref("cm", 1, TRUE) }

EvalDest ==
    { Ref("tmp", 0, FALSE), Ref("tmp", 1, FALSE), Ref("cm", 0, FALSE),
      Ref("cm", 0, TRUE), Ref("cm", 1, FALSE), Ref("tmpExp", 0, FALSE),
      Ref("q", 0, FALSE), Ref("f", 0, FALSE) }

EvalSections ==
    { Section(op, <<a, b>>, d) :
        op \in {"add", "copy"}, a \in EvalSrc, b \in EvalSrc2, d \in EvalDest }
    \cup { Section(op, <<a, b>>, d) :
              op \in {"sub", "mul"},
              a \in { Num(<<"2">>), Ref("challenge", 0, FALSE) },
              b \in { Num(<<"1", "0">>), Ref("cm", 1, TRUE), Ref("cm", 0, FALSE) },
              d \in { Ref("tmp", 0, FALSE), Ref("cm", 1, FALSE), Ref("cm", 0, FALSE) } }

EvalFirst ==
    { Section("mul", <<Ref("challenge", 0, FALSE), Num(<<"2">>)>>, Ref("tmp", 0, FALSE)),
      Section("copy", <<Ref("x", 0, FALSE)>>, Ref("cm", 0, FALSE)) }

EvalCodes == CodeLists(EvalFirst, EvalSections)

----------------------------------------------------------------------------
(* Specifications.                                                         *)

InitWith(codes, qdims) ==
    /\ code \in codes
    /\ dom \in Doms
    /\ ret \in BOOLEAN
    /\ q_dim \in qdims
    /\ body = <<>>
    /\ j = 0
    /\ cstate = "compiling"
    /\ ctx = CtxInit
    /\ estate = [w \in Workers |-> "idle"]
    /\ pc = [w \in Workers |-> 0]
    /\ val_stack = [w \in Workers |-> <<>>]
    /\ arg_i = [w \in Workers |-> 0]
    /\ result = [w \in Workers |-> ZERO]
    /\ nevals = [w \in Workers |-> 0]
    /\ written = [w \in Workers |-> {}]
    /\ lastw = [w \in Workers |-> NoWrite]

\* compile_code, then block.eval row after row, one eval at a time.
Init == InitWith(EvalCodes, {1, 3})

Next ==
    \/ CompileSection
    \/ CompileRet
    \/ \E w \in Workers : \E i \in 0..(compile_N(dom) - 1) : StartEval(w, i, TRUE)
    \/ \E w \in Workers : Step(w)
    \/ \E w \in Workers : EvalEnd(w)

Spec == Init /\ [][Next]_vars

\* compile_code alone, over every node kind in every position.
InitCompile == InitWith(CompileCodes, {1, 2, 3})

NextCompile == CompileSection \/ CompileRet

SpecCompile == InitCompile /\ [][NextCompile]_vars

\* compile_code, then two workers evaluating rows of disjoint shards
\* against the one Context, their instructions interleaved.
ParCodes ==
    { <<Section("add", <<a, Num(<<"1", "0">>)>>, d)>> : a \in EvalSrc, d \in EvalDest }

InitPar == InitWith(ParCodes, {3})

NextPar ==
    \/ CompileSection
    \/ CompileRet
    \/ \E w \in Workers : \E i \in 0..(compile_N(dom) - 1) : StartEval(w, i, FALSE)
    \/ \E w \in Workers : Step(w)
    \/ \E w \in Workers : EvalEnd(w)

SpecPar == InitPar /\ [][NextPar]_vars

\* Blocks built by hand (Block.exprs is public): a load, a store followed
\* by a load of the same descriptor, and a store alone, over descriptors of
\* every shape.
BlockSections ==
    { "tmp", "cm1_n", "cm1_2ns", "q_2ns", "challenge", "xDivXSubXi", "Zi", "nowhere" }

Refer(section, offset, next, modulas, size, dim) ==
    Expr("Refer", ZERO, IF dim = 3 THEN <<section, "3">> ELSE <<section>>,
         get_index(offset, next, modulas, size))

Descs(d) ==
    { Refer(section, offset, next, compile_N(d), size, dim) :
        section \in BlockSections, offset \in {0, 1}, next \in {0, 1, 2},
        size \in {0, 1, 3}, dim \in {1, 3} }

BlockVals == { FromInt(7), F3Gnew(7, 8, 9) }

Blocks(d) ==
    { << e, Expr("Ret", ZERO, <<>>, <<>>) >> : e \in Descs(d) }
    \cup { << VariExpr(v), Expr("Write", ZERO, <<>>, <<e>>), e,
              Expr("Ret", ZERO, <<>>, <<>>) >> : v \in BlockVals, e \in Descs(d) }
    \cup { << VariExpr(v), Expr("Write", ZERO, <<>>, <<e>>) >> :
              v \in BlockVals, e \in Descs(d) }

InitBlock ==
    /\ code = <<>>
    /\ dom \in Doms
    /\ ret = FALSE
    /\ q_dim = 3
    /\ body \in Blocks(dom)
    /\ j = 0
    /\ cstate = "compiled"
    /\ ctx = CtxInit
    /\ estate = [w \in Workers |-> "idle"]
    /\ pc = [w \in Workers |-> 0]
    /\ val_stack = [w \in Workers |-> <<>>]
    /\ arg_i = [w \in Workers |-> 0]
    /\ result = [w \in Workers |-> ZERO]
    /\ nevals = [w \in Workers |-> 0]
    /\ written = [w \in Workers |-> {}]
    /\ lastw = [w \in Workers |-> NoWrite]

NextBlock ==
    \/ \E w \in Workers : \E i \in 0..(compile_N(dom) - 1) : StartEval(w, i, TRUE)
    \/ \E w \in Workers : Step(w)
    \/ \E w \in Workers : EvalEnd(w)

SpecBlock == InitBlock /\ [][NextBlock]_vars

----------------------------------------------------------------------------
(* Properties.                                                             *)

ArithOps == {"Add", "Sub", "Mul", "Copy_"}

ValueOps == ArithOps \cup {"Vari", "Refer"}

\* The instruction a section's op string stands for.
OpOf(op) ==
    CASE op = "add" -> "Add" [] op = "sub" -> "Sub"
      [] op = "mul" -> "Mul" [] op = "copy" -> "Copy_"

\* C4 -- Stack discipline: while eval runs a compiled block the stack is
\* empty at entry, holds exactly one value after every value-producing
\* instruction and none after every Write, so its height is 0 or 1; it is
\* 1 right before every Write and before Ret (no pop finds it empty), and
\* empty when eval has returned.
C4_StackDiscipline ==
    \A w \in Workers :
        /\ estate[w] = "running" =>
              /\ Len(val_stack[w]) \in {0, 1}
              /\ pc[w] = 0 => val_stack[w] = <<>>
              /\ (pc[w] > 0 /\ body[pc[w]].op \in ValueOps)
                    => Len(val_stack[w]) = 1
              /\ (pc[w] > 0 /\ body[pc[w]].op = "Write")
                    => Len(val_stack[w]) = 0
              /\ (pc[w] < Len(body) /\ body[pc[w] + 1].op \in ValueOps)
                    => Len(val_stack[w]) = 0
              /\ (pc[w] < Len(body) /\ body[pc[w] + 1].op \in {"Write", "Ret"})
                    => Len(val_stack[w]) = 1
        /\ estate[w] \in {"ret", "end"} => val_stack[w] = <<>>

\* An eval of a two-section block has run through both Writes and its Ret.
C4_Witness ==
    \E w \in Workers :
        /\ estate[w] = "ret"
        /\ Len(code) = 2
        /\ pc[w] = 6
        /\ lastw[w].some

\* C10 -- Block shape: the block compile emits holds, for each section in
\* order, one arithmetic instruction (that of the section's op) followed
\* by one Write, and, exactly when ret is set, a trailing Refer followed
\* by Ret; Ret occurs nowhere but last.
C10_BlockShape ==
    cstate = "compiled" =>
        /\ Len(body) = 2 * Len(code) + (IF ret THEN 2 ELSE 0)
        /\ \A k \in 1..Len(code) :
              /\ body[2 * k - 1].op = OpOf(code[k].op)
              /\ body[2 * k].op = "Write"
        /\ ret => /\ body[Len(body) - 1].op = "Refer"
                  /\ body[Len(body)].op = "Ret"
        /\ \A k \in 1..Len(body) : body[k].op = "Ret" => (ret /\ k = Len(body))

\* A block of two sections and a return has been emitted.
C10_Witness ==
    cstate = "compiled" /\ ret /\ Len(code) = 2 /\ Len(body) = 6

\* C1 -- Return contract: an eval of a block compiled with ret set returns
\* exactly the value (same dim, same coordinates) that the Write of the
\* final section stored at that row.
C1_ReturnContract ==
    \A w \in Workers :
        estate[w] = "ret" => (lastw[w].some /\ result[w] = lastw[w].val)

\* C2 -- Write-read round-trip: right after a Write of value v to a
\* destination descriptor at row i, a Refer with the identical descriptor
\* evaluated at row i loads a value equal to v.
C2_WriteReadRoundTrip ==
    \A w \in Workers :
        (estate[w] = "running" /\ pc[w] > 0 /\ body[pc[w]].op = "Write") =>
            LET loaded == get_value(ctx, lastw[w].dest, arg_i[w])
            IN  ~IsPanicVal(loaded) /\ FEq(loaded, lastw[w].val)

\* The restriction column of the resolver table: the kinds a domain excludes.
Restricted(n, d) ==
    \/ n.type_ \in {"q", "f", "xDivXSubXi", "xDivXSubWXi"} /\ d = "n"
    \/ n.type_ = "tmpExp" /\ d = "2ns"
    \/ n.type_ \notin Kinds

\* The nodes of a section, sources and destination alike.
NodesOf(sec) == { sec.src[k] : k \in 1..Len(sec.src) } \cup { sec.dest }

\* C6 -- Domain restrictions are compile errors: compile emits no Block
\* when some source or destination node is of kind q, f, xDivXSubXi or
\* xDivXSubWXi in the base domain, of kind tmpExp in the extended domain,
\* or of an unknown kind.
C6_DomainRestrictionsAbort ==
    cstate = "compiled" =>
        \A k \in 1..Len(code) : \A n \in NodesOf(code[k]) : ~Restricted(n, dom)

\* A source node the resolver table admits in domain d.
SrcAdmitted(n, d) ==
    /\ ~Restricted(n, d)
    /\ n.type_ = "number" => (n.value.some /\ parse_u64(n.value.s) >= 0)

\* A destination node the set variant admits in domain d.
DestAdmitted(n, d) ==
    /\ n.type_ \in {"tmp", "cm", "tmpExp", "q", "f"}
    /\ ~Restricted(n, d)
    /\ n.type_ = "q" => q_dim \in {1, 3}

\* A section with a known op, enough sources for it, and an admitted
\* destination: whatever stops its compilation lies in a source node.
SectionWellFormed(sec, d) ==
    /\ sec.op \in Ops
    /\ Len(sec.src) >= (IF sec.op = "copy" THEN 1 ELSE 2)
    /\ DestAdmitted(sec.dest, d)

\* C9 -- Every kind of the resolver table is accepted as a source: a
\* section whose source nodes are all of the 14 kinds, each in a domain
\* its restriction allows, compiles without an error.
C9_EveryKindIsASource ==
    (cstate = "panic" /\ j < Len(code) /\ SectionWellFormed(code[j + 1], dom)) =>
        \E k \in 1..Len(code[j + 1].src) : ~SrcAdmitted(code[j + 1].src[k], dom)

\* The fields of an address descriptor.
DescSection(e) == e.syms[1]
DescOffset(e)  == as_int(e.defs[1].x)
DescNext(e)    == as_int(e.defs[2].x)
DescModulus(e) == as_int(e.defs[3].x)
DescStride(e)  == as_int(e.defs[4].x)
DescDim(e)     == IF Len(e.syms) = 2 THEN sym_dim(e.syms[2]) ELSE 1

\* The expressions of an emitted block paired with the nodes they were
\* resolved from: the inline operands, the Write destinations and the
\* trailing Refer.
Emitted ==
    IF cstate # "compiled" THEN {}
    ELSE UNION { { <<code[k].src[m], body[2 * k - 1].defs[m]>> :
                     m \in 1..Len(body[2 * k - 1].defs) }
                 \cup { <<code[k].dest, body[2 * k].defs[1]>> } :
                 k \in 1..Len(code) }
         \cup (IF ret THEN { <<code[Len(code)].dest, body[Len(body) - 1]>> } ELSE {})

EmittedRefers == { p \in Emitted : p[2].op = "Refer" }

\* C7 -- Rotation field (as claimed): the next field of every Refer
\* emitted for a node of a kind other than x and Zi is 0 when the node's
\* prime flag is false and the rotation of the domain when it is true; for
\* x and Zi it is 0 whatever the flag.
C7_RotationField_Original ==
    \A p \in EmittedRefers :
        DescNext(p[2]) =
            IF p[1].type_ \notin {"x", "Zi"} /\ p[1].prime
            THEN compile_next(dom) ELSE 0

\* C7 -- Rotation field (amended): the next field of every Refer emitted
\* for a node of kind const, cm or tmpExp is 0 when the node's prime flag
\* is false and the rotation of the domain when it is true; for every
\* other kind it is 0 whatever the flag.
C7_RotationField ==
    \A p \in EmittedRefers :
        DescNext(p[2]) =
            IF p[1].type_ \in {"const", "cm", "tmpExp"} /\ p[1].prime
            THEN compile_next(dom) ELSE 0

\* A block of the extended domain holds the Refer of a primed cm node,
\* rotated by 2^(nbits_ext - nbits), beside that of a primed tmp
\* node, which is not rotated.
C7_Witness ==
    /\ dom = "2ns"
    /\ \E p \in EmittedRefers :
          p[1].type_ = "cm" /\ p[1].prime /\ DescNext(p[2]) = Pow2(nbits_ext - nbits)
    /\ \E p \in EmittedRefers :
          p[1].type_ = "tmp" /\ p[1].prime /\ DescNext(p[2]) = 0

\* The polynomial record a cm or tmpExp node stands for in domain d.
PolRecord(n, d) ==
    LET vec == IF n.type_ = "tmpExp" THEN tmpexp_n
               ELSE IF d = "n" THEN cm_n ELSE cm_2ns
    IN  var_pol_map[vec[n.id + 1] + 1]

Row(section, offset, stride, dim) ==
    [section |-> section, offset |-> offset, stride |-> stride, dim |-> dim]

\* The resolver table: section, offset, stride and dim per kind, with the
\* strides of the q and f rows as parameters.
Table(n, d, q_stride, f_stride) ==
    CASE n.type_ = "tmp"       -> Row("tmp", n.id, 0, 1)
      [] n.type_ = "public"    -> Row("publics", n.id, 0, 1)
      [] n.type_ = "challenge" -> Row("challenge", n.id, 0, 1)
      [] n.type_ = "eval"      -> Row("evals", n.id, 0, 1)
      [] n.type_ = "x"         -> Row(IF d = "n" THEN "x_n" ELSE "x_2ns", 0, 1, 1)
      [] n.type_ = "Zi"        -> Row("Zi", 0, 1, 1)
      [] n.type_ = "xDivXSubXi"  -> Row("xDivXSubXi", 0, 3, 3)
      [] n.type_ = "xDivXSubWXi" -> Row("xDivXSubWXi", 0, 3, 3)
      [] n.type_ = "const" ->
            Row(IF d = "n" THEN "const_n" ELSE "const_2ns", n.id, n_constants, 1)
      [] n.type_ \in {"cm", "tmpExp"} ->
            LET p == PolRecord(n, d)
            IN  Row(p.section, p.section_pos, map_sectionsN(p.section), p.dim)
      [] n.type_ = "q" -> Row("q_2ns", n.id, q_stride, q_dim)
      [] n.type_ = "f" -> Row("f_2ns", n.id, f_stride, 3)

DescRow(e) == Row(DescSection(e), DescOffset(e), DescStride(e), DescDim(e))

\* C8 -- Descriptor table conformance (as claimed): every descriptor the
\* resolver emits, for a source or for a destination, has the section,
\* offset, stride and dim of the resolver table, whose q and f rows have
\* stride 0.
C8_DescriptorTable_Original ==
    \A p \in EmittedRefers : DescRow(p[2]) = Table(p[1], dom, 0, 0)

\* C8 -- Descriptor table conformance (amended): every descriptor the
\* resolver emits, for a source or for a destination, has the section,
\* offset, stride and dim of the resolver table, except that the stride of
\* the q row is q_dim and the stride of the f row is 3.
C8_DescriptorTable ==
    \A p \in EmittedRefers : DescRow(p[2]) = Table(p[1], dom, q_dim, 3)

\* A block holds the descriptor of an f destination, of stride 3 and dim
\* 3, and that of a cm source, of the row width of its section.
C8_Witness ==
    /\ \E p \in EmittedRefers :
          p[1].type_ = "f" /\ DescStride(p[2]) = 3 /\ DescDim(p[2]) = 3
    /\ \E p \in EmittedRefers :
          p[1].type_ = "cm" /\ DescStride(p[2]) = map_sectionsN("cm1_2ns")

\* C3 -- Disjoint rows write disjoint cells: the cells one eval of a
\* compiled block stores to at row i and the cells another stores to at a
\* different row j are disjoint, so two workers on disjoint row shards
\* never store to the same cell of the shared Context.
C3_DisjointRowsDisjointCells ==
    \A w, v \in Workers :
        (w # v /\ nevals[w] > 0 /\ nevals[v] > 0 /\ arg_i[w] # arg_i[v])
            => written[w] \cap written[v] = {}

\* The descriptor e with its next field set to zero.
Unrotated(e) == [e EXCEPT !.defs[2] = VariExpr(ZERO)]

\* What the Refer that worker w has just executed left: the value on top of
\* the stack, or a panic.
Loaded(w) ==
    IF estate[w] = "panic" THEN PanicVal ELSE val_stack[w][Len(val_stack[w])]

JustLoaded(w) ==
    /\ estate[w] \in {"running", "panic"}
    /\ pc[w] > 0
    /\ body[pc[w]].op = "Refer"

\* The same Refer with next = 0, loaded at row (i + next) mod N.
LoadedAtRotatedRow(w) ==
    LET e == body[pc[w]]
    IN  get_value(ctx, Unrotated(e), (arg_i[w] + DescNext(e)) % DescModulus(e))

\* C5 -- Row rotation (as claimed): for every Refer, of any section, Zi
\* included, with next = r and modulus N, the load at row i gives what the
\* load of the same Refer with next = 0 gives at row (i + r) mod N.
C5_RowRotation_Original ==
    \A w \in Workers : JustLoaded(w) => Loaded(w) = LoadedAtRotatedRow(w)

\* C5 -- Row rotation (amended): for every Refer of a section other than
\* Zi, with next = r and modulus N, the load at row i gives what the load
\* of the same Refer with next = 0 gives at row (i + r) mod N; a Refer of
\* Zi loads Zi(i) whatever its next field.
C5_RowRotation ==
    \A w \in Workers :
        JustLoaded(w) =>
            IF DescSection(body[pc[w]]) = "Zi"
            THEN Loaded(w) = Zi(arg_i[w])
            ELSE Loaded(w) = LoadedAtRotatedRow(w)

\* A rotated Refer of a row-major section has been loaded at the last row,
\* where the rotation wraps around.
C5_Witness ==
    \E w \in Workers :
        /\ JustLoaded(w)
        /\ estate[w] = "running"
        /\ DescSection(body[pc[w]]) = "cm1_2ns"
        /\ DescNext(body[pc[w]]) = 2
        /\ DescStride(body[pc[w]]) = 3
        /\ arg_i[w] = compile_N(dom) - 1

\* C11 -- Modulus invariant: in one compilation every Refer emitted, as an
\* arithmetic operand, as a Write destination or as the trailing return
\* Refer, has modulus N, where N is 2^nbits in the base domain and
\* 2^nbits_ext in the extended domain.
C11_ModulusInvariant ==
    \A p \in EmittedRefers :
        DescModulus(p[2]) = (IF dom = "n" THEN Pow2(nbits) ELSE Pow2(nbits_ext))

\* A block of the extended domain holds a Refer operand, a Write
\* destination and the trailing Refer, each of modulus 2^nbits_ext.
C11_Witness ==
    /\ cstate = "compiled" /\ dom = "2ns" /\ ret /\ Len(code) >= 1
    /\ \E m \in 1..Len(body[1].defs) :
          body[1].defs[m].op = "Refer"
          /\ DescModulus(body[1].defs[m]) = Pow2(nbits_ext)
    /\ DescModulus(body[2].defs[1]) = Pow2(nbits_ext)
    /\ DescModulus(body[Len(body) - 1]) = Pow2(nbits_ext)

\* The kinds a Write may target.
WriteKinds == {"tmp", "cm", "tmpExp", "q", "f"}

\* C12 -- Write targets are restricted: compile emits a Write only for a
\* dest node of kind tmp, cm, tmpExp, q or f; a section whose dest is of
\* kind number, public, challenge, eval, x, Zi, xDivXSubXi, xDivXSubWXi or
\* const, or of an unknown kind, is never compiled: the compilation aborts
\* at it.
C12_WriteTargetsRestricted ==
    /\ cstate # "panic" =>
          /\ \A k \in 1..j : code[k].dest.type_ \in WriteKinds
          /\ Cardinality({k \in 1..Len(body) : body[k].op = "Write"}) = j
    /\ (cstate = "compiled" /\ Len(code) > 0) =>
          code[Len(code)].dest.type_ \in WriteKinds

\* The compilation has aborted at a section whose op and sources compile
\* and whose dest is a const node.
C12_Witness ==
    /\ cstate = "panic"
    /\ j < Len(code)
    /\ code[j + 1].dest.type_ = "const"
    /\ code[j + 1].op \in Ops
    /\ \A k \in 1..Len(code[j + 1].src) :
          ~IsPanic(get_ref(code[j + 1].src[k], dom, compile_next(dom), compile_N(dom)))
    /\ Len(code[j + 1].src) >= 2

\* What an eval of a block compiled without ret leaves when it has returned:
\* it fell off the end of the instruction list, having executed the Write
\* of the last section last, and returned zero with the stack empty.
ReturnedZero(w) ==
    /\ estate[w] # "ret"
    /\ estate[w] = "end" =>
          /\ pc[w] = Len(body)
          /\ result[w] = ZERO
          /\ val_stack[w] = <<>>
          /\ Len(code) > 0 =>
                (lastw[w].some /\ lastw[w].dest = body[Len(body)].defs[1])

AllCells ==
    UNION { { <<AllNames[n], k>> : k \in 0..(BufLen(AllNames[n], q_dim) - 1) } :
            n \in 1..Len(AllNames) }

\* Worker w executes the Write at its instruction pointer in this step.
WriteStep(w) ==
    /\ estate[w] = "running"
    /\ pc[w] < Len(body)
    /\ body[pc[w] + 1].op = "Write"
    /\ pc'[w] = pc[w] + 1

\* The index a Write or a load computes from a descriptor at row i.
IdxOf(e, i) == DescOffset(e) + ((i + DescNext(e)) % DescModulus(e)) * DescStride(e)

\* The cells the Write of value v to descriptor e at row i is to change.
WriteLayout(e, v, i) ==
    IF v.dim = 1 \/ DescSection(e) = "tmp"
    THEN { <<DescSection(e), IdxOf(e, i)>> }
    ELSE { <<DescSection(e), IdxOf(e, i) + k>> : k \in 0..2 }

\* C14 -- Write layout and frame: a Write pops exactly one value v and
\* computes idx = offset + ((i + next) mod N) * stride from its destination
\* descriptor; if v.dim = 1 or the target section is tmp it changes only
\* buf[idx] of the target section, to v, otherwise it changes only
\* buf[idx], buf[idx+1], buf[idx+2], to the three coordinates of v; every
\* other cell of the target section and every other section of the Context
\* is left unchanged.
C14_WriteLayoutAndFrame ==
    [][ \A w \in Workers :
          WriteStep(w) =>
            LET e   == body[pc[w] + 1].defs[1]
                st  == val_stack[w]
                v   == st[Len(st)]
                idx == IdxOf(e, arg_i[w])
            IN  /\ \A p \in AllCells \ WriteLayout(e, v, arg_i[w]) :
                      Cell(ctx', p[1], p[2]) = Cell(ctx, p[1], p[2])
                /\ estate'[w] = "running" =>
                      /\ val_stack'[w] = SubSeq(st, 1, Len(st) - 1)
                      /\ \A p \in WriteLayout(e, v, arg_i[w]) :
                            Cell(ctx', p[1], p[2]) =
                                IF v.dim = 1 \/ DescSection(e) = "tmp"
                                THEN v
                                ELSE FromInt(as_elements(v)[p[2] - idx + 1])
      ]_vars

\* A Write of a dim-3 value to a section other than tmp has just stored
\* its three coordinates in three consecutive cells.
C14_Witness ==
    \E w \in Workers :
        /\ estate[w] = "running"
        /\ pc[w] > 0
        /\ body[pc[w]].op = "Write"
        /\ lastw[w].val.dim = 3
        /\ DescSection(lastw[w].dest) = "cm1_2ns"
        /\ \A k \in 0..2 :
              <<"cm1_2ns", IdxOf(lastw[w].dest, arg_i[w]) + k>> \in DOMAIN ctx

\* C15 -- Return Refer matches the last Write: when ret is set and the dest
\* of the final section is of a write-target kind (tmp, cm, tmpExp, q, f)
\* in a domain that permits it, compile succeeds and the Refer appended
\* before Ret has the section, offset, next, modulus, stride and dim of the
\* destination descriptor of the final section's Write.
C15_ReturnReferMatchesLastWrite ==
    (/\ ret
     /\ cstate # "compiling"
     /\ Len(code) > 0
     /\ j = Len(code)
     /\ DestAdmitted(code[Len(code)].dest, dom))
    => /\ cstate = "compiled"
       /\ body[Len(body) - 1] = body[Len(body) - 2].defs[1]

\* The value of source node n at row i on Context c: the immediate of a
\* number, else the value loaded through the node's descriptor.
SourceValue(n, c, i) ==
    IF n.type_ = "number"
    THEN FromInt(parse_u64(n.value.s))
    ELSE get_value(c, get_ref(n, dom, compile_next(dom), compile_N(dom)), i)

\* What a section is to compute at row i on Context c.
SectionValue(sec, c, i) ==
    CASE sec.op = "add"  -> FAdd(SourceValue(sec.src[1], c, i), SourceValue(sec.src[2], c, i))
      [] sec.op = "sub"  -> FSub(SourceValue(sec.src[1], c, i), SourceValue(sec.src[2], c, i))
      [] sec.op = "mul"  -> FMul(SourceValue(sec.src[1], c, i), SourceValue(sec.src[2], c, i))
      [] sec.op = "copy" -> SourceValue(sec.src[1], c, i)

\* C16 -- Section semantics: the Write compiled from a section {op, src,
\* dest} stores at dest, at row i, the value src0 + src1 for add,
\* src0 - src1 in that order for sub, src0 * src1 for mul and src0 for
\* copy, in field arithmetic, each operand being its immediate if it is a
\* number and else the value loaded from the Context at row i as it is
\* before the Write (a dest that aliases a source reads the old value).
C16_SectionSemantics ==
    [][ \A w \in Workers :
          (WriteStep(w) /\ cstate = "compiled") =>
            LET sec == code[(pc[w] + 1) \div 2]
                e   == body[pc[w] + 1].defs[1]
                st  == val_stack[w]
                v   == SectionValue(sec, ctx, arg_i[w])
            IN  /\ st = <<v>>
                /\ estate'[w] = "running" =>
                      /\ lastw'[w].val = v
                      /\ to_be(Cell(ctx', DescSection(e), IdxOf(e, arg_i[w]))) = to_be(v)
      ]_vars

\* A sub section whose dest is its second source has been evaluated: the
\* cell holds the first source minus the old content of the cell, which
\* differs from the second source minus the first.
C16_Witness ==
    \E w \in Workers :
        /\ estate[w] = "running"
        /\ Len(code) = 1
        /\ pc[w] = 2
        /\ code[1].op = "sub"
        /\ code[1].dest = code[1].src[2]
        /\ code[1].src[1].type_ = "number"
        /\ LET e   == lastw[w].dest
               idx == IdxOf(e, arg_i[w])
               old == CellInit(DescSection(e), idx)
               a   == FromInt(parse_u64(code[1].src[1].value.s))
           IN  /\ Cell(ctx, DescSection(e), idx) = FSub(a, old)
               /\ FSub(a, old) # FSub(old, a)
               /\ a.c[1] < old.c[1]

\* Blocks of every instruction sequence up to MaxBlockLen over one
\* instruction of each kind: a Ret may come early, late or not at all, a
\* pop may find the stack empty.
TermInstrs(d) ==
    { VariExpr(FromInt(7)),
      Expr("Add", ZERO, <<>>,
           << VariExpr(FromInt(7)), Refer("tmp", 0, 0, compile_N(d), 0, 1) >>),
      Expr("Copy_", ZERO, <<>>, << VariExpr(FromInt(5)) >>),
      Expr("Write", ZERO, <<>>, << Refer("tmp", 1, 0, compile_N(d), 0, 1) >>),
      Refer("cm1_2ns", 0, 1, compile_N(d), 1, 1),
      Expr("Ret", ZERO, <<>>, <<>>) }

TermBlocks(d) == UNION { [1..n -> TermInstrs(d)] : n \in 0..MaxBlockLen }

InitTerm ==
    /\ code = <<>>
    /\ dom \in Doms
    /\ ret = FALSE
    /\ q_dim = 3
    /\ body \in TermBlocks(dom)
    /\ j = 0
    /\ cstate = "compiled"
    /\ ctx = CtxInit
    /\ estate = [w \in Workers |-> "idle"]
    /\ pc = [w \in Workers |-> 0]
    /\ val_stack = [w \in Workers |-> <<>>]
    /\ arg_i = [w \in Workers |-> 0]
    /\ result = [w \in Workers |-> ZERO]
    /\ nevals = [w \in Workers |-> 0]
    /\ written = [w \in Workers |-> {}]
    /\ lastw = [w \in Workers |-> NoWrite]

NextTerm ==
    \/ \E w \in Workers : \E i \in 0..(compile_N(dom) - 1) : StartEval(w, i, TRUE)
    \/ \E w \in Workers : Step(w)
    \/ \E w \in Workers : EvalEnd(w)

\* eval is a plain loop on the calling thread: once entered it keeps taking
\* its next turn until it returns or panics.
SpecTerm ==
    /\ InitTerm
    /\ [][NextTerm]_vars
    /\ \A w \in Workers : WF_vars(Step(w)) /\ WF_vars(EvalEnd(w))

\* Where eval stands: the instruction pointer is within the block; no Ret
\* lies behind it but, when eval has returned through one, the Ret it
\* stopped at; an eval that ran off the list has passed all of it.
StopsAtFirstRet ==
    \A w \in Workers :
        /\ pc[w] <= Len(body)
        /\ \A k \in 1..(pc[w] - 1) : body[k].op # "Ret"
        /\ estate[w] = "running" => \A k \in 1..pc[w] : body[k].op # "Ret"
        /\ estate[w] = "ret" => (pc[w] > 0 /\ body[pc[w]].op = "Ret")
        /\ estate[w] = "end" => pc[w] = Len(body)

\* One turn of eval: whatever it changes of worker w, it moves the
\* instruction pointer on by exactly one, or it is the return at the end of
\* the list; the pointer goes back to 0 only when a new eval is entered.
OneInstructionPerStep ==
    \A w \in Workers :
        /\ (estate[w] = "running"
            /\ <<pc[w], val_stack[w], estate[w], result[w]>>
                  # <<pc'[w], val_stack'[w], estate'[w], result'[w]>>)
           => \/ /\ pc[w] < Len(body)
                 /\ pc'[w] = pc[w] + 1
                 /\ estate'[w] \in {"running", "ret", "panic"}
                 /\ estate'[w] = "ret" => body[pc[w] + 1].op = "Ret"
                 /\ body[pc[w] + 1].op = "Ret" => estate'[w] # "running"
              \/ /\ pc[w] = Len(body)
                 /\ pc'[w] = pc[w]
                 /\ estate'[w] = "end"
        /\ (estate[w] # "running" /\ pc'[w] # pc[w])
           => (pc'[w] = 0 /\ estate'[w] = "running")

\* C17 -- Termination: eval of any block always terminates; the
\* instruction pointer goes up by exactly one per step, so no instruction
\* is executed more than once, and execution stops at the first Ret or
\* when the instruction list is exhausted, that is after at most
\* len(block) steps.
C17_Termination ==
    /\ []StopsAtFirstRet
    /\ [][OneInstructionPerStep]_vars
    /\ \A w \in Workers : (estate[w] = "running") ~> (estate[w] # "running")

\* An eval has returned at a Ret that is not the last instruction of its
\* block, after one step per instruction before it.
C17_Witness ==
    \E w \in Workers :
        /\ estate[w] = "ret"
        /\ pc[w] = 2
        /\ pc[w] < Len(body)
        /\ body[pc[w] + 1].op # "Ret"

\* The cells a destination descriptor of dim d declares at row i.
Footprint(e, i) ==
    { <<DescSection(e), IdxOf(e, i) + k>> : k \in 0..(DescDim(e) - 1) }

\* C18 -- Write stays inside the destination's declared footprint: a
\* compiled Write whose destination descriptor has dim d, executed at any
\* row with a popped value of dim 1 or dim 3, modifies no cell outside
\* buf[idx .. idx + d - 1] of the target section; a destination of dim 1
\* in a section other than tmp never has buf[idx+1], buf[idx+2] overwritten.
C18_WriteStaysInFootprint ==
    [][ \A w \in Workers :
          (WriteStep(w) /\ cstate = "compiled") =>
              \A p \in AllCells \ Footprint(body[pc[w] + 1].defs[1], arg_i[w]) :
                  Cell(ctx', p[1], p[2]) = Cell(ctx, p[1], p[2])
      ]_vars

\* C19 -- Only Write changes state: executing Vari, Add, Sub, Mul, Copy,
\* Refer or Ret, or returning at the end of the list, leaves every cell of
\* every section of the Context unchanged, and no instruction changes the
\* Block, which is the same for every row it is entered at.
C19_OnlyWriteChangesState ==
    [][ /\ ctx' # ctx => \E w \in Workers : WriteStep(w)
        /\ cstate = "compiled" => (body' = body /\ cstate' = "compiled")
      ]_vars

\* After a Mul and a Write that changed the Context, a Refer has been
\* executed and the eval has returned through Ret: the Context is as the
\* Write left it.
C19_Witness ==
    \E w \in Workers :
        /\ estate[w] = "ret"
        /\ pc[w] = 4
        /\ body[1].op = "Mul" /\ body[2].op = "Write" /\ body[3].op = "Refer"
        /\ written[w] # {}
        /\ \A p \in written[w] : p \in DOMAIN ctx

====
